---- MODULE Spec2Model ----
(***************************************************************************)
(* A model of the reliable-UDP connection of skycoin/net: the sender's     *)
(* sequence counter and Write path (conn/udp.go), the UDP pending map with *)
(* its 8-slot window and loss scan (conn/pending_map.go), the message      *)
(* status and RTO timer (msg/msg.go), the network between the two peers,   *)
(* and the receiving peer's in-order delivery.                             *)
(***************************************************************************)
EXTENDS Integers, Sequences, FiniteSets, TLC

\* ---------------------------------------------------------------- bounds
\* highest seq a caller of Write allocates when only the pending map is driven
MaxSeq == 9
\* highest seq allocated in the end-to-end specifications
MaxSend == 3
\* highest seq allocated on the network that delivers in the end
MaxFair == 3
\* the clock stops ticking here
MaxTime == 2
\* copies of one seq the receiving peer takes from the network
MaxCopies == 2
\* calls of Miss counted for one message while its timers are followed
MaxMiss == 1
\* highest seq allocated while the timers are followed, and where their clock
\* stops
MaxTimerSend == 2
MaxTimerTime == 7
\* width of the seq counter in bits (uint32 in the source, reduced here;
\* 2^SeqBits stays a multiple of the window size, as 2^32 is)
SeqBits == 6

SeqModulus == 2 ^ SeqBits

\* ------------------------------------------------------ program constants
WindowSize == 8
STATUS_CONNECTING == 0
STATUS_CONNECTED == 1
STATUS_ERROR == 2
UDP_GC_PERIOD == 90
MAX_UDP_PACKAGE_SIZE == 1024
\* msg.MSG_HEADER_SIZE (type, seq, len) and msg.PKG_HEADER_SIZE (crc32)
MSG_HEADER_SIZE == 9
PKG_HEADER_SIZE == 4

\* conn/const.go: the controller's constants
MTU == 1500
BBR_SCALE == 8
BBR_UNIT == 2 ^ BBR_SCALE
highGain == (BBR_UNIT * 2885) \div 1000 + 1
drainGain == (BBR_UNIT * 1000) \div 2885
cwndGain == BBR_UNIT * 2
fullBwThresh == (BBR_UNIT * 5) \div 4
fullBwCnt == 3
pacingGain ==
  <<(BBR_UNIT * 5) \div 4, (BBR_UNIT * 3) \div 4, BBR_UNIT, BBR_UNIT, BBR_UNIT,
    BBR_UNIT, BBR_UNIT, BBR_UNIT>>
gainCycleLength == Len(pacingGain)
bandwidthWindowSize == gainCycleLength + 2
startup == 0
drain == 1
probeBW == 2
\* the min-RTT filter's window, in seconds
MinRTTWindow == 10

\* MIN_RTO, 200 ms, in the timers' unit of 100 ms
MIN_RTO == 2

\* msg.MSG_STATUS_TRANSMITTED, msg.MSG_STATUS_ACKED: the two status bits
MSG_STATUS_TRANSMITTED == "transmitted"
MSG_STATUS_ACKED == "acked"

\* the goroutines that call UDPConn.Write: the connection's WriteLoop, and a
\* direct caller that drops the error (server.connHandler)
Writers == {"loop", "direct"}
\* the analyse tasks of one UDPPendingMap: NewPendingMap starts one
\* (pending_map.go line 25) and NewUDPPendingMap another (line 111)
Analysers == {"a1", "a2"}
\* the callers of the factory Connection's Close: the preprocessor on its
\* way out, and the application
FClosers == {"preprocessor", "app"}
\* the goroutines that call UDPConn.Close
Closers == {"c1", "c2"}
\* the goroutines that call PendingMap.DelMsg
Readers == {"r1", "r2"}
Bodies == {"x", "y"}
Seqs == 1..MaxSeq
\* the bodies a caller may hand to Write for each seq: one fixed body, or a
\* free choice for the first message and a fixed body after it
OneBody == [s \in Seqs |-> {"x"}]
AnyBody == [s \in Seqs |-> IF s = 1 THEN Bodies ELSE {"y"}]
Slots == 0..(WindowSize - 1)

\* len(body) of the bodies a caller submits: "max" is the longest body whose
\* framed datagram fits MAX_UDP_PACKAGE_SIZE, "big" is one byte longer
BodyLen(b) ==
  CASE b = "max" -> MAX_UDP_PACKAGE_SIZE - PKG_HEADER_SIZE - MSG_HEADER_SIZE
    [] b = "big" -> MAX_UDP_PACKAGE_SIZE - PKG_HEADER_SIZE - MSG_HEADER_SIZE + 1
    [] b = "none" -> 0
    [] OTHER -> 1
\* the size of the framed datagram: crc32, header and body
FramedSize(b) == PKG_HEADER_SIZE + MSG_HEADER_SIZE + BodyLen(b)
\* callers that submit bodies of any size
SizedBody == [s \in Seqs |-> {"x", "max", "big"}]

VARIABLES
  seq,            \* ConnCommonFields.seq, the last seq allocated
  status,         \* connection status
  wpc,            \* where each caller of Write is
  wseq,           \* the seq a caller of Write holds
  werr,           \* what the caller's last Write returned
  mbody,          \* Message.Body of the message with each seq
  mstatus,        \* Message.status of the message with each seq
  transmittedAt,  \* Message.transmittedAt
  ackedAt,        \* Message.ackedAt
  rtt,            \* Message.rtt
  Pending,        \* keys of PendingMap.Pending
  waitBits,       \* UDPPendingMap.waitBits, as the set of set bits
  ackedMessages,  \* keys of PendingMap.ackedMessages
  panicked,       \* the loss scan panicked: the map's lock is never released
  rpc,            \* where the reader is inside DelMsgAndGetLossMsgs
  rk,             \* the seq the reader is acknowledging
  rok,            \* ok, the first result of DelMsgAndGetLossMsgs
  rloss,          \* loss, its second result
  timer,          \* UDPMessage.resendTimer of each seq
  netAB,          \* NORMAL datagrams in flight to the peer
  netBA,          \* ACK datagrams in flight from the peer
  recvNextExpected, \* the peer's lowest seq not yet delivered
  reorderBuffer,  \* the peer's out-of-order messages
  delivered,      \* what the peer's consumer has received
  recvCount,      \* NORMAL datagrams the peer received, per seq
  ackCount,       \* calls of Ack the peer made, per seq
  now,            \* the clock
  closed,         \* UDPConn.closed; the In and Out channels are closed with it
  cmsg,           \* the message handed to the codec, or none yet
  wire,           \* what the last call of Bytes or PkgBytes returned
  wireBy,         \* which of the two it was
  din,            \* the last inbound datagram
  dres,           \* what decoding it gave
  reenc,          \* the decoded message, encoded again
  corruption,     \* the receive path's count of datagrams it dropped
  readPanicked,   \* the receive loop was left by a panic
  mode,           \* the controller's mode
  fullBw,         \* the bandwidth estimate startup last saw grow
  fullBwCount,    \* rounds of startup in which it did not grow
  cycleIndex,     \* the index into the pacing gain cycle
  pacingRate,     \* the controller's pacing rate
  cwnd,           \* the controller's send window
  minRTT,         \* the min-RTT estimate
  maxBandwidth,   \* the max-bandwidth estimate
  rttWindow,      \* the samples the min-RTT filter holds
  bwWindow,       \* the highest bandwidth sample of each round in the filter
  round,          \* the round-trip count
  inflight,       \* bytes in flight at the last ack
  rttLog,         \* every RTT sample of the last 10 seconds, as taken
  bbrPc,          \* "acked" right after an ack has been processed
  lastTime,       \* UDPConn.lastTime, in seconds
  lastSweep,      \* when the GC last swept the connections
  miss,           \* UDPMessage.miss of each seq
  rto,            \* the rto each seq's timer was armed with
  fireAt,         \* when each seq's timer is due
  dpc,            \* where each caller of PendingMap.DelMsg is
  dk,             \* the seq each caller of PendingMap.DelMsg acknowledges
  cpc,            \* where each caller of UDPConn.Close is
  ncalls,         \* the calls of Close each caller has made
  chIn,           \* the In channel, open or closed
  chOut,          \* the Out channel, open or closed
  closeLog,       \* the panics Close has recovered from and logged
  closePanic,     \* a panic has left Close
  apc,            \* where each analyse task is
  ackedLock,      \* the holder of ackedMessagesMutex, or none
  lmWriter,       \* the holder of lastMinuteAckedMutex for writing, or none
  lmReaders,      \* the holders of lastMinuteAckedMutex for reading
  lastMinuteAcked,\* PendingMap.lastMinuteAcked
  fpc,            \* where each caller of the factory Connection's Close is
  fcalls,         \* the calls of Close each caller has made
  fLock,          \* the holder of the factory Connection's fieldsMutex, or none
  fclosed,        \* the factory Connection's closed
  keySet,         \* the factory Connection's keySet
  reconnects,     \* the times the reconnect callback was started
  disconnects,    \* the times the onDisconnected callback ran
  unregisters,    \* the times the key was unregistered from the factory
  finCloses,      \* the times the inbound channel c.in was closed
  connCloses      \* the times the underlying connection's Close was called

connVars == <<seq, status, wpc, wseq, werr>>
msgVars == <<mbody, mstatus, transmittedAt, ackedAt, rtt>>
mapVars == <<Pending, waitBits, ackedMessages, panicked>>
readerVars == <<rpc, rk, rok, rloss>>
peerVars == <<recvNextExpected, reorderBuffer, delivered, recvCount, ackCount>>
netVars == <<netAB, netBA>>
\* the state the pending map, the writers and the peer never touch
codecVars == <<cmsg, wire, wireBy, din, dres, reenc>>
rxVars == <<corruption, readPanicked>>
bbrVars == <<mode, fullBw, fullBwCount, cycleIndex, pacingRate, cwnd, minRTT,
             maxBandwidth, rttWindow, bwWindow, round, inflight, rttLog, bbrPc>>
gcVars == <<lastTime, lastSweep>>
rtoVars == <<miss, rto, fireAt>>
dmVars == <<dpc, dk>>
chVars == <<cpc, ncalls, chIn, chOut, closeLog, closePanic>>
lockVars == <<apc, ackedLock, lmWriter, lmReaders, lastMinuteAcked>>
facVars == <<fpc, fcalls, fLock, fclosed, keySet, reconnects, disconnects,
             unregisters, finCloses, connCloses>>
lateVars == <<chVars, lockVars, facVars>>
moreVars == <<rtoVars, dmVars, lateVars>>
\* the state the RTO timers leave alone
untimedVars == <<closed, codecVars, rxVars, bbrVars, gcVars, dmVars, lateVars>>
\* the state PendingMap.DelMsg and its callers leave alone
undelVars == <<closed, codecVars, rxVars, bbrVars, gcVars, rtoVars, lateVars>>
extVars == <<closed, codecVars, rxVars, bbrVars, gcVars, moreVars>>
vars == <<connVars, msgVars, mapVars, readerVars, peerVars, netVars, timer, now, extVars>>

Init ==
  /\ seq = 0
  /\ status = STATUS_CONNECTED
  /\ wpc = [t \in Writers |-> "idle"]
  /\ wseq = [t \in Writers |-> 0]
  /\ werr = [t \in Writers |-> "nil"]
  /\ mbody = [s \in Seqs |-> "none"]
  /\ mstatus = [s \in Seqs |-> {}]
  /\ transmittedAt = [s \in Seqs |-> 0]
  /\ ackedAt = [s \in Seqs |-> 0]
  /\ rtt = [s \in Seqs |-> 0]
  /\ Pending = {}
  /\ waitBits = {}
  /\ ackedMessages = {}
  /\ panicked = FALSE
  /\ rpc = "idle"
  /\ rk = 0
  /\ rok = FALSE
  /\ rloss = <<>>
  /\ timer = [s \in Seqs |-> "off"]
  /\ netAB = {}
  /\ netBA = {}
  /\ recvNextExpected = 1
  /\ reorderBuffer = {}
  /\ delivered = <<>>
  /\ recvCount = [s \in Seqs |-> 0]
  /\ ackCount = [s \in Seqs |-> 0]
  /\ now = 0
  /\ closed = FALSE
  /\ cmsg = {}
  /\ wire = {}
  /\ wireBy = "none"
  /\ din = {}
  /\ dres = {}
  /\ reenc = {}
  /\ corruption = 0
  /\ readPanicked = FALSE
  /\ mode = startup
  /\ fullBw = 0
  /\ fullBwCount = 0
  /\ cycleIndex = 0
  /\ pacingRate = 0
  /\ cwnd = 4 * MTU
  /\ minRTT = 0
  /\ maxBandwidth = 0
  /\ rttWindow = {}
  /\ bwWindow = <<>>
  /\ round = 0
  /\ inflight = 0
  /\ rttLog = {}
  /\ bbrPc = "idle"
  /\ lastTime = 0
  /\ lastSweep = 0
  /\ miss = [s \in Seqs |-> 0]
  /\ rto = [s \in Seqs |-> 0]
  /\ fireAt = [s \in Seqs |-> 0]
  /\ dpc = [r \in Readers |-> "idle"]
  /\ dk = [r \in Readers |-> 0]
  /\ cpc = [c \in Closers |-> "idle"]
  /\ ncalls = [c \in Closers |-> 0]
  /\ chIn = "open"
  /\ chOut = "open"
  /\ closeLog = 0
  /\ closePanic = FALSE
  /\ apc = [a \in Analysers |-> "idle"]
  /\ ackedLock = "none"
  /\ lmWriter = "none"
  /\ lmReaders = {}
  /\ lastMinuteAcked = {}
  /\ fpc = [c \in FClosers |-> "idle"]
  /\ fcalls = [c \in FClosers |-> 0]
  /\ fLock = "none"
  /\ fclosed = FALSE
  /\ keySet = FALSE
  /\ reconnects = 0
  /\ disconnects = 0
  /\ unregisters = 0
  /\ finCloses = 0
  /\ connCloses = 0

\* --------------------------------------------------------------- the clock
Tick ==
  /\ now < MaxTime
  /\ now' = now + 1
  /\ UNCHANGED <<connVars, msgVars, mapVars, readerVars, peerVars, netVars, timer,
                 extVars>>

\* ------------------------------------------------------------ UDPConn.Write
\* a Write that hands the datagram to the socket before AddMsg
WriteBeginWritesFirst(t, B, max) ==
  /\ wpc[t] = "idle"
  /\ t = "loop" => ~closed
  /\ seq < max
  /\ \E b \in B[(seq + 1) % SeqModulus] :
       /\ seq' = (seq + 1) % SeqModulus
       /\ wseq' = [wseq EXCEPT ![t] = (seq + 1) % SeqModulus]
       /\ mbody' = [mbody EXCEPT ![(seq + 1) % SeqModulus] = b]
       /\ netAB' = netAB \cup {[type |-> "NORMAL", seq |-> (seq + 1) % SeqModulus,
                                 body |-> b]}
  /\ wpc' = [wpc EXCEPT ![t] = "add"]
  /\ UNCHANGED <<status, werr, mstatus, transmittedAt, ackedAt, rtt, mapVars,
                 readerVars, peerVars, netBA, timer, now, extVars>>

\* Write, line 57-58: atomic.AddUint32(&c.seq, 1) and msg.New. WriteLoop takes
\* the body from the Out channel; it has returned once the status is an error,
\* and it takes nothing from a closed channel.
WriteBegin(t, B, max) ==
  /\ wpc[t] = "idle"
  /\ t = "loop" => ~closed
  /\ seq < max
  /\ \E b \in B[(seq + 1) % SeqModulus] :
       /\ seq' = (seq + 1) % SeqModulus
       /\ wseq' = [wseq EXCEPT ![t] = (seq + 1) % SeqModulus]
       /\ mbody' = [mbody EXCEPT ![(seq + 1) % SeqModulus] = b]
  /\ wpc' = [wpc EXCEPT ![t] = "add"]
  /\ UNCHANGED <<status, werr, mstatus, transmittedAt, ackedAt, rtt, mapVars,
                 readerVars, peerVars, netVars, timer, now, extVars>>

\* GetNextSeq, lines 116-118: atomic.AddUint32(&c.seq, 1), in the counter's
\* width; the caller holds the seq it returns
GetNextSeq(t) ==
  /\ wpc[t] = "idle"
  /\ seq' = (seq + 1) % SeqModulus
  /\ wseq' = [wseq EXCEPT ![t] = (seq + 1) % SeqModulus]
  /\ UNCHANGED <<status, wpc, werr, msgVars, mapVars, readerVars, peerVars,
                 netVars, timer, now, extVars>>

\* callers take one seq after another, up to the counter's wrap and beyond
SeqNext == \E t \in Writers : GetNextSeq(t)

SeqSpec == Init /\ [][SeqNext]_vars

\* UDPPendingMap.AddMsg under the map's lock: wait while the slot's bit is
\* set, then insert and set the bit.
AddMsgNoWait(t) ==
  /\ wpc[t] = "add"
  /\ ~panicked
  /\ Pending' = Pending \cup {wseq[t]}
  /\ waitBits' = waitBits \cup {wseq[t] % WindowSize}
  /\ wpc' = [wpc EXCEPT ![t] = "transmitted"]
  /\ UNCHANGED <<seq, status, wseq, werr, msgVars, ackedMessages, panicked,
                 readerVars, peerVars, netVars, timer, now, extVars>>

AddMsg(t) ==
  /\ wpc[t] = "add"
  /\ ~panicked
  /\ (wseq[t] % WindowSize) \notin waitBits
  /\ Pending' = Pending \cup {wseq[t]}
  /\ waitBits' = waitBits \cup {wseq[t] % WindowSize}
  /\ wpc' = [wpc EXCEPT ![t] = "transmitted"]
  /\ UNCHANGED <<seq, status, wseq, werr, msgVars, ackedMessages, panicked,
                 readerVars, peerVars, netVars, timer, now, extVars>>

\* AddMsg's v.Transmitted(), after the lock is released
Transmitted(t) ==
  /\ wpc[t] = "transmitted"
  /\ mstatus' = [mstatus EXCEPT ![wseq[t]] = @ \cup {MSG_STATUS_TRANSMITTED}]
  /\ transmittedAt' = [transmittedAt EXCEPT ![wseq[t]] = now]
  /\ wpc' = [wpc EXCEPT ![t] = "write"]
  /\ UNCHANGED <<seq, status, wseq, werr, mbody, ackedAt, rtt, mapVars,
                 readerVars, peerVars, netVars, timer, now, extVars>>

\* an encoding that leaves the body out
DatagramBodyNotCopied(s) == [type |-> "NORMAL", seq |-> s, body |-> "none"]

\* The datagram Write hands to the socket: m.Bytes(), the cached encoding of
\* type, seq, len and body.
Datagram(s) == [type |-> "NORMAL", seq |-> s, body |-> mbody[s]]

\* send, step 5: the RTO timer of the message is armed once the datagram has
\* been handed to the socket.
ArmRTO(s) == [timer EXCEPT ![s] = "armed"]

\* SetRTO, lines 178-180 and 193: time.AfterFunc(rto, ...) sets the timer of
\* the message to go off rto from now
SetRTO(s, r) ==
  /\ timer' = ArmRTO(s)
  /\ rto' = [rto EXCEPT ![s] = r]
  /\ fireAt' = [fireAt EXCEPT ![s] = now + r]

\* Write, line 60, WriteBytes returning nil, and the timer armed with rto r
WriteOkRTO(t, r) ==
  /\ wpc[t] = "write"
  /\ netAB' = netAB \cup {Datagram(wseq[t])}
  /\ werr' = [werr EXCEPT ![t] = "nil"]
  /\ wpc' = [wpc EXCEPT ![t] = "idle"]
  /\ SetRTO(wseq[t], r)
  /\ UNCHANGED <<seq, status, wseq, msgVars, mapVars, readerVars, peerVars,
                 netBA, now, miss, untimedVars>>

\* Write, line 60, WriteBytes returning nil; WriteLoop then takes the next body.
WriteOk(t) == WriteOkRTO(t, MIN_RTO)

\* a writer that logs the error and goes on with the next body
WriteFailAbsorbed(t) ==
  /\ wpc[t] = "write"
  /\ werr' = [werr EXCEPT ![t] = "err"]
  /\ wpc' = [wpc EXCEPT ![t] = "idle"]
  /\ SetRTO(wseq[t], MIN_RTO)
  /\ UNCHANGED <<seq, status, wseq, msgVars, mapVars, readerVars, peerVars,
                 netVars, now, miss, untimedVars>>

\* Write, line 60, WriteBytes returning an error: Write returns it; WriteLoop
\* (lines 47-51) returns it too and its deferred function (lines 34-38) sets
\* the status to error; the direct caller drops it.
WriteFail(t) ==
  /\ wpc[t] = "write"
  /\ werr' = [werr EXCEPT ![t] = "err"]
  /\ wpc' = [wpc EXCEPT ![t] = IF t = "loop" THEN "exit" ELSE "idle"]
  /\ status' = IF t = "loop" THEN STATUS_ERROR ELSE status
  /\ SetRTO(wseq[t], MIN_RTO)
  /\ UNCHANGED <<seq, wseq, msgVars, mapVars, readerVars, peerVars, netVars, now,
                 miss, untimedVars>>

\* ------------------------------------- UDPPendingMap.DelMsgAndGetLossMsgs
\* pk := k - uint32(n), line 142, in the counter's width
PrevKey(k, n) == (k - n) % SeqModulus

\* prev, line 138: every bit but the acked slot's and its predecessor's
PrevMask(k) == Slots \ {k % WindowSize, (k - 1) % WindowSize}

\* line 143: the bit of pk's slot is set
SlotSet(k, n, bits) == (PrevKey(k, n) % WindowSize) \in bits

\* a scan that goes on to the immediate predecessor
ScanOrderToPredecessor == <<7, 6, 5, 4, 3, 2, 1>>

\* the order of the scan, line 141: n from 7 down to 2
ScanOrder == <<7, 6, 5, 4, 3, 2>>

\* lines 144-147: the scan finds a set bit whose key is not in Pending
ScanPanics(k, P, bits) ==
  /\ bits \cap PrevMask(k) # {}
  /\ \E i \in 1..Len(ScanOrder) :
       /\ SlotSet(k, ScanOrder[i], bits)
       /\ PrevKey(k, ScanOrder[i]) \notin P

\* lines 140-151: the loss list, in the order of the scan
LossMsgs(k, P, bits) ==
  IF bits \cap PrevMask(k) = {}
  THEN <<>>
  ELSE LET hit == SelectSeq(ScanOrder, LAMBDA n : SlotSet(k, n, bits))
       IN  [i \in 1..Len(hit) |-> PrevKey(k, hit[i])]

\* a delete that leaves the slot's bit set
DelLockedKeepsBit(k) ==
  /\ rpc = "idle"
  /\ ~panicked
  /\ rk' = k
  /\ IF k \notin Pending
     THEN /\ rok' = FALSE
          /\ rpc' = "return"
          /\ UNCHANGED <<Pending, waitBits, panicked, rloss>>
     ELSE /\ Pending' = Pending \ {k}
          /\ rok' = TRUE
          /\ rloss' = <<>>
          /\ rpc' = "acked"
          /\ UNCHANGED <<waitBits, panicked>>
  /\ UNCHANGED <<connVars, msgVars, ackedMessages, peerVars, netAB, timer, now, extVars>>

\* a lookup that clears the slot's bit before it looks k up
DelLockedClearsFirst(k) ==
  /\ rpc = "idle"
  /\ ~panicked
  /\ rk' = k
  /\ waitBits' = waitBits \ {k % WindowSize}
  /\ IF k \notin Pending
     THEN /\ rok' = FALSE
          /\ rpc' = "return"
          /\ UNCHANGED <<Pending, panicked, rloss>>
     ELSE /\ Pending' = Pending \ {k}
          /\ rok' = TRUE
          /\ IF ScanPanics(k, Pending', waitBits')
             THEN /\ panicked' = TRUE
                  /\ rpc' = "panic"
                  /\ UNCHANGED rloss
             ELSE /\ rloss' = LossMsgs(k, Pending', waitBits')
                  /\ rpc' = "acked"
                  /\ UNCHANGED panicked
  /\ UNCHANGED <<connVars, msgVars, ackedMessages, peerVars, netAB, timer, now, extVars>>

\* lines 128-152, under the map's lock: look k up and return (false, nil) if
\* it is not pending; else delete it, clear its bit and scan for losses. A
\* panic leaves the lock held.
DelLocked(k) ==
  /\ rpc = "idle"
  /\ ~panicked
  /\ rk' = k
  /\ IF k \notin Pending
     THEN /\ rok' = FALSE
          /\ rpc' = "return"
          /\ UNCHANGED <<Pending, waitBits, panicked, rloss>>
     ELSE /\ Pending' = Pending \ {k}
          /\ waitBits' = waitBits \ {k % WindowSize}
          /\ rok' = TRUE
          /\ IF ScanPanics(k, Pending', waitBits')
             THEN /\ panicked' = TRUE
                  /\ rpc' = "panic"
                  /\ UNCHANGED rloss
             ELSE /\ rloss' = LossMsgs(k, Pending', waitBits')
                  /\ rpc' = "acked"
                  /\ UNCHANGED panicked
  /\ UNCHANGED <<connVars, msgVars, ackedMessages, peerVars, netAB, timer, now, extVars>>

\* line 155, v.Acked() (Message.Acked, msg.go 138-144)
DelAcked ==
  /\ rpc = "acked"
  /\ mstatus' = [mstatus EXCEPT ![rk] = @ \cup {MSG_STATUS_ACKED}]
  /\ ackedAt' = [ackedAt EXCEPT ![rk] = now]
  /\ rtt' = [rtt EXCEPT ![rk] = now - transmittedAt[rk]]
  /\ rpc' = "record"
  /\ UNCHANGED <<connVars, mbody, transmittedAt, mapVars, rk, rok, rloss,
                 peerVars, netVars, timer, now, extVars>>

\* lines 157-161: record the message as acked and return (ok, loss)
DelRecord ==
  /\ rpc = "record"
  /\ ackedMessages' = ackedMessages \cup {rk}
  /\ rpc' = "return"
  /\ UNCHANGED <<connVars, msgVars, Pending, waitBits, panicked, rk, rok, rloss,
                 peerVars, netVars, timer, now, extVars>>

\* ----------------------------------------- PendingMap.AddMsg and DelMsg
\* highest seq allocated while PendingMap.DelMsg is followed
MaxDelSend == 2

\* PendingMap.AddMsg, lines 30-32: insert under the map's lock; no window
PendingMapAddMsg(t) ==
  /\ wpc[t] = "add"
  /\ Pending' = Pending \cup {wseq[t]}
  /\ wpc' = [wpc EXCEPT ![t] = "transmitted"]
  /\ UNCHANGED <<seq, status, wseq, werr, msgVars, waitBits, ackedMessages,
                 panicked, readerVars, peerVars, netVars, timer, now, extVars>>

\* the caller of AddMsg writes the message to its connection
Sent(t) ==
  /\ wpc[t] = "write"
  /\ netAB' = netAB \cup {Datagram(wseq[t])}
  /\ wpc' = [wpc EXCEPT ![t] = "idle"]
  /\ UNCHANGED <<seq, status, wseq, werr, msgVars, mapVars, readerVars, peerVars,
                 netBA, timer, now, extVars>>

\* DelMsg, lines 37-43: look k up under the read lock; return false if it is
\* not pending
DelMsgLookup(r, k) ==
  /\ dpc[r] = "idle"
  /\ Datagram(k) \in netAB
  /\ IF k \in Pending
     THEN /\ dpc' = [dpc EXCEPT ![r] = "acked"]
          /\ dk' = [dk EXCEPT ![r] = k]
     ELSE UNCHANGED <<dpc, dk>>
  /\ UNCHANGED <<connVars, msgVars, mapVars, readerVars, peerVars, netVars, timer,
                 now, undelVars>>

\* DelMsg, line 45: v.Acked() (Message.Acked, msg.go 138-144)
DelMsgAcked(r) ==
  /\ dpc[r] = "acked"
  /\ mstatus' = [mstatus EXCEPT ![dk[r]] = @ \cup {MSG_STATUS_ACKED}]
  /\ ackedAt' = [ackedAt EXCEPT ![dk[r]] = now]
  /\ rtt' = [rtt EXCEPT ![dk[r]] = now - transmittedAt[dk[r]]]
  /\ dpc' = [dpc EXCEPT ![r] = "record"]
  /\ UNCHANGED <<connVars, mbody, transmittedAt, mapVars, readerVars, peerVars,
                 netVars, timer, now, dk, undelVars>>

\* DelMsg, lines 47-49: the message is recorded as acked
DelMsgRecord(r) ==
  /\ dpc[r] = "record"
  /\ ackedMessages' = ackedMessages \cup {dk[r]}
  /\ dpc' = [dpc EXCEPT ![r] = "delete"]
  /\ UNCHANGED <<connVars, msgVars, Pending, waitBits, panicked, readerVars,
                 peerVars, netVars, timer, now, dk, undelVars>>

\* DelMsg, lines 51-54: delete k under the map's lock and return true
DelMsgDelete(r) ==
  /\ dpc[r] = "delete"
  /\ Pending' = Pending \ {dk[r]}
  /\ dpc' = [dpc EXCEPT ![r] = "idle"]
  /\ dk' = [dk EXCEPT ![r] = 0]
  /\ UNCHANGED <<connVars, msgVars, waitBits, ackedMessages, panicked, readerVars,
                 peerVars, netVars, timer, now, undelVars>>

\* messages are added and written, and two readers take the acknowledgements
\* of written messages, while time passes
DelWrite ==
  \/ WriteBegin("loop", OneBody, MaxDelSend)
  \/ PendingMapAddMsg("loop")
  \/ Transmitted("loop")
  \/ Sent("loop")

DelMsg ==
  \E r \in Readers :
    \/ \E k \in Seqs : DelMsgLookup(r, k)
    \/ DelMsgAcked(r)
    \/ DelMsgRecord(r)
    \/ DelMsgDelete(r)

DelNext ==
  \/ DelWrite
  \/ DelMsg
  \/ Tick

DelSpec == Init /\ [][DelNext]_vars

\* the messages of a loss list, as a set of seqs
Range(f) == {f[i] : i \in DOMAIN f}

\* a reader that drops the loss list
NoRetransmit(loss) == netAB

\* receive path, step 2: every lost message is written again at once
Retransmit(loss) == netAB \cup {Datagram(s) : s \in Range(loss)}

\* the caller of DelMsgAndGetLossMsgs takes its results and is ready for the
\* next ACK; the receive path retransmits the loss list
ReaderDone(retransmit) ==
  /\ rpc = "return"
  /\ rpc' = "idle"
  /\ rk' = 0
  /\ rok' = FALSE
  /\ rloss' = <<>>
  /\ netAB' = IF retransmit /\ rok THEN Retransmit(rloss) ELSE netAB
  /\ UNCHANGED <<connVars, msgVars, mapVars, peerVars, netBA, timer, now, extVars>>

\* a caller hands DelMsgAndGetLossMsgs any seq
AckCall ==
  \E k \in 0..(MaxSeq + 1) : DelLocked(k) /\ UNCHANGED netBA

\* ------------------------------------------- the pending map, driven alone
PMWrite ==
  \E t \in Writers :
    \/ WriteBegin(t, OneBody, MaxSeq)
    \/ AddMsg(t)
    \/ Transmitted(t)
    \/ WriteOk(t)

PMNext ==
  \/ PMWrite
  \/ AckCall
  \/ DelAcked
  \/ DelRecord
  \/ ReaderDone(TRUE)

PMSpec == Init /\ [][PMNext]_vars

\* ------------------------------------------------- UDPMessage.SetRTO timer
\* UDPMessage.Miss, lines 207-209: the counter goes up by one; the loss path
\* calls it for a message it reports lost
Miss(s) ==
  /\ s \in Pending
  /\ miss[s] < MaxMiss
  /\ miss' = [miss EXCEPT ![s] = @ + 1]
  /\ UNCHANGED <<connVars, msgVars, mapVars, readerVars, peerVars, netVars, timer,
                 now, rto, fireAt, untimedVars>>

\* the timer's function, lines 181-187: an acked message is left alone; for
\* any other the lock is released and ResetMiss stores 0
RTOFire(s) ==
  /\ timer[s] = "armed"
  /\ timer' = [timer EXCEPT ![s] = IF MSG_STATUS_ACKED \in mstatus[s]
                                   THEN "off" ELSE "run"]
  /\ miss' = [miss EXCEPT ![s] = IF MSG_STATUS_ACKED \in mstatus[s] THEN @ ELSE 0]
  /\ UNCHANGED <<connVars, msgVars, mapVars, readerVars, peerVars, netVars, now,
                 rto, fireAt, untimedVars>>

\* a timer that is set again to twice the rto it had
RTOResendBacksOff(s) ==
  /\ timer[s] = "run"
  /\ netAB' = netAB \cup {Datagram(s)}
  /\ SetRTO(s, 2 * rto[s])
  /\ UNCHANGED <<connVars, msgVars, mapVars, readerVars, peerVars, netBA, now,
                 miss, untimedVars>>

\* a resend that stamps the message as Transmitted does
RTOResendRestamps(s) ==
  /\ timer[s] = "run"
  /\ netAB' = netAB \cup {Datagram(s)}
  /\ SetRTO(s, rto[s])
  /\ transmittedAt' = [transmittedAt EXCEPT ![s] = now]
  /\ UNCHANGED <<connVars, mbody, mstatus, ackedAt, rtt, mapVars, readerVars,
                 peerVars, netBA, now, miss, untimedVars>>

\* lines 188-191: fn() writes the cached bytes again and returns nil, and
\* SetRTO(rto, fn) sets the timer again with the rto it had
RTOResendOk(s) ==
  /\ timer[s] = "run"
  /\ netAB' = netAB \cup {Datagram(s)}
  /\ SetRTO(s, rto[s])
  /\ UNCHANGED <<connVars, msgVars, mapVars, readerVars, peerVars, netBA, now,
                 miss, untimedVars>>

\* lines 188-191: fn() returns an error, and the timer is not armed again
RTOResendFail(s) ==
  /\ timer[s] = "run"
  /\ timer' = [timer EXCEPT ![s] = "off"]
  /\ UNCHANGED <<connVars, msgVars, mapVars, readerVars, peerVars, netVars, now, extVars>>

\* ------------------------------------------------------- the message codec
\* the receive path stops counting dropped datagrams here
MaxCorrupt == 2
\* highest seq allocated while damaged datagrams arrive
MaxRxSend == 1
\* bounds of the codec's inputs: the longest body, and MAX_MESSAGE_SIZE, which
\* the source sets outside these files (reduced here to the longest body)
MaxBodyLen == 2
MAX_MESSAGE_SIZE == MaxBodyLen

\* the type bytes; the source sets them outside these files, and only their
\* being distinct matters here. UnknownType is a byte that is none of them.
TYPE_NORMAL == 0
TYPE_ACK == 1
TYPE_PING == 2
TYPE_PONG == 3
TYPE_FIN == 4
UnknownType == 9
ValidTypes == {TYPE_NORMAL, TYPE_ACK, TYPE_PING, TYPE_PONG, TYPE_FIN}

\* binary.BigEndian.PutUint32 and binary.BigEndian.Uint32
PutUint32(n) ==
  <<(n \div 16777216) % 256, (n \div 65536) % 256, (n \div 256) % 256, n % 256>>
Uint32(b) == ((b[1] * 256 + b[2]) * 256 + b[3]) * 256 + b[4]

\* the exclusive or of two naturals
RECURSIVE Xor(_, _)
Xor(a, b) ==
  IF a = 0 THEN b
  ELSE IF b = 0 THEN a
  ELSE ((a + b) % 2) + 2 * Xor(a \div 2, b \div 2)
\* a 32-bit word as its two 16-bit halves, <<high, low>>
HalfModulus == 2 ^ 16
XorWord(a, b) == <<Xor(a[1], b[1]), Xor(a[2], b[2])>>
ShiftRight(a) == <<a[1] \div 2, (a[2] \div 2) + (a[1] % 2) * (HalfModulus \div 2)>>
AllOnes == <<HalfModulus - 1, HalfModulus - 1>>
\* the reflected IEEE polynomial 0xEDB88320
IEEEPoly == <<60856, 33568>>
RECURSIVE CrcRounds(_, _)
CrcRounds(c, n) ==
  IF n = 0 THEN c
  ELSE CrcRounds(IF c[2] % 2 = 1 THEN XorWord(ShiftRight(c), IEEEPoly)
                 ELSE ShiftRight(c), n - 1)
\* (the test of c makes TLC evaluate it before it goes on to the next byte)
RECURSIVE CrcUpdate(_, _, _)
CrcUpdate(c, bytes, i) ==
  IF c = <<>> \/ i > Len(bytes) THEN c
  ELSE CrcUpdate(CrcRounds(XorWord(c, <<0, bytes[i]>>), 8), bytes, i + 1)
\* crc32.ChecksumIEEE followed by binary.BigEndian.PutUint32: the four bytes
\* of the checksum, highest first
ChecksumIEEE(bytes) ==
  LET w == XorWord(CrcUpdate(AllOnes, bytes, 1), AllOnes)
  IN  <<w[1] \div 256, w[1] % 256, w[2] \div 256, w[2] % 256>>

\* msg.New, line 55: the cache is empty
New(t, s, bytes) ==
  [Type |-> t, Seq |-> s, Len |-> Len(bytes), Body |-> bytes, cache |-> <<>>]

\* copy(result[MSG_HEADER_END:], msg.Body) into the msg.Len zero bytes that
\* make allocated
CopyBody(n, body) == [i \in 1..n |-> IF i <= Len(body) THEN body[i] ELSE 0]

\* lines 81-85 and 101-105: type, seq, len and body
HeaderAndBody(m) ==
  <<m.Type>> \o PutUint32(m.Seq) \o PutUint32(m.Len) \o CopyBody(m.Len, m.Body)

\* Message.Bytes, lines 73-90: the cache if it is not empty, else the header
\* and the body
Bytes(m) == IF Len(m.cache) > 0 THEN m.cache ELSE HeaderAndBody(m)

\* Message.PkgBytes, lines 92-112: the cache if it is not empty, else the
\* checksum of the header and the body, followed by them
PkgBytes(m) ==
  IF Len(m.cache) > 0 THEN m.cache
  ELSE ChecksumIEEE(HeaderAndBody(m)) \o HeaderAndBody(m)

\* NewByHeader, lines 45-47: a Len above MAX_MESSAGE_SIZE panics
NewByHeaderPanics(header) == Uint32(SubSeq(header, 6, 9)) > MAX_MESSAGE_SIZE

\* NewByHeader, lines 41-51: the fields of the header and a body of Len zero
\* bytes
NewByHeader(header) ==
  [Type |-> header[1],
   Seq |-> Uint32(SubSeq(header, 2, 5)),
   Len |-> Uint32(SubSeq(header, 6, 9)),
   Body |-> [i \in 1..Uint32(SubSeq(header, 6, 9)) |-> 0],
   cache |-> <<>>]

\* codec.decode: the datagram is long enough for the two headers, the
\* checksum matches the rest, the header parses, and the body is there
Decode(d) ==
  IF Len(d) < PKG_HEADER_SIZE + MSG_HEADER_SIZE
  THEN [err |-> "TRUNCATED"]
  ELSE IF SubSeq(d, 1, PKG_HEADER_SIZE) # ChecksumIEEE(SubSeq(d, PKG_HEADER_SIZE + 1, Len(d)))
  THEN [err |-> "CORRUPT"]
  ELSE LET header == SubSeq(d, PKG_HEADER_SIZE + 1, PKG_HEADER_SIZE + MSG_HEADER_SIZE)
           rest == SubSeq(d, PKG_HEADER_SIZE + MSG_HEADER_SIZE + 1, Len(d))
       IN  IF NewByHeaderPanics(header)
           THEN [err |-> "panic"]
           ELSE IF Len(rest) < NewByHeader(header).Len
           THEN [err |-> "TRUNCATED"]
           ELSE [err |-> "nil",
                 msg |-> [NewByHeader(header) EXCEPT
                            !.Body = SubSeq(rest, 1, NewByHeader(header).Len)]]

\* the state outside the codec
connState == <<connVars, msgVars, mapVars, readerVars, peerVars, netVars, timer, now>>

\* the inputs of the codec: seqs that fill one, two and four bytes, and every
\* body of at most MaxBodyLen bytes
CodecSeqs == {1, 258, 16777221}
BodyBytes == {1, 200}
CodecBodies == UNION {[1..n -> BodyBytes] : n \in 0..MaxBodyLen}

\* a caller makes a message, msg.New
NewMsg ==
  \E t \in ValidTypes, s \in CodecSeqs, b \in CodecBodies :
    /\ cmsg = {}
    /\ din = {}
    /\ Len(b) <= MAX_MESSAGE_SIZE
    /\ cmsg' = {New(t, s, b)}
    /\ UNCHANGED <<connState, closed, rxVars, bbrVars, gcVars, moreVars, wire, wireBy, din, dres, reenc>>

\* a call of Message.Bytes; lines 86-88 store the result on the message
CallBytes ==
  \E m \in cmsg :
    /\ wire' = {Bytes(m)}
    /\ wireBy' = "Bytes"
    /\ cmsg' = {[m EXCEPT !.cache = Bytes(m)]}
    /\ UNCHANGED <<connState, closed, rxVars, bbrVars, gcVars, moreVars, din, dres, reenc>>

\* a call of Message.PkgBytes; lines 108-110 store the result on the message
CallPkgBytes ==
  \E m \in cmsg :
    /\ wire' = {PkgBytes(m)}
    /\ wireBy' = "PkgBytes"
    /\ cmsg' = {[m EXCEPT !.cache = PkgBytes(m)]}
    /\ UNCHANGED <<connState, closed, rxVars, bbrVars, gcVars, moreVars, din, dres, reenc>>

\* a datagram as a peer frames it: the checksum of all that follows it, then
\* type, seq, a len field and the bytes of the body
Frame(t, s, l, p) ==
  ChecksumIEEE(<<t>> \o PutUint32(s) \o PutUint32(l) \o p)
    \o <<t>> \o PutUint32(s) \o PutUint32(l) \o p

\* d with its last byte changed on the way
Damaged(d) == [d EXCEPT ![Len(d)] = (@ + 1) % 256]

\* what the network may hand to the receiver: well-formed datagrams, datagrams
\* whose len field is above or below the bytes they carry or above
\* MAX_MESSAGE_SIZE, datagrams of an unknown type, damaged and cut ones
Datagrams(seqs, bodies) ==
  LET framed == {Frame(t, s, l, p) : t \in {TYPE_NORMAL, TYPE_ACK, UnknownType},
                                     s \in seqs,
                                     l \in 0..(MAX_MESSAGE_SIZE + 1),
                                     p \in bodies}
  IN  framed \cup {Damaged(d) : d \in framed}
             \cup {SubSeq(d, 1, PKG_HEADER_SIZE + MSG_HEADER_SIZE - 1) : d \in framed}

\* a datagram arrives
Inbound ==
  \E d \in Datagrams({1, 258}, CodecBodies) :
    /\ din = {}
    /\ cmsg = {}
    /\ din' = {d}
    /\ UNCHANGED <<connState, closed, rxVars, bbrVars, gcVars, moreVars, cmsg, wire, wireBy, dres, reenc>>

\* it is decoded
DecodeIn ==
  \E d \in din :
    /\ dres = {}
    /\ dres' = {Decode(d)}
    /\ UNCHANGED <<connState, closed, rxVars, bbrVars, gcVars, moreVars, cmsg, wire, wireBy, din, reenc>>

\* a message that decoded without error is encoded again
ReEncode ==
  \E r \in dres :
    /\ r.err = "nil"
    /\ reenc = {}
    /\ reenc' = {PkgBytes(r.msg)}
    /\ UNCHANGED <<connState, closed, rxVars, bbrVars, gcVars, moreVars, cmsg, wire, wireBy, din, dres>>

CodecNext ==
  \/ NewMsg
  \/ CallBytes
  \/ CallPkgBytes
  \/ Inbound
  \/ DecodeIn
  \/ ReEncode

CodecSpec == Init /\ [][CodecNext]_vars

\* ------------------------------------------ the receive path, step 1: decode
\* the bodies and the datagrams of the receive path's specification
ByteBody == [s \in Seqs |-> {<<1>>}]
RxSeqs == 1..MaxRxSend
RxBodies == {<<>>, <<1>>}

\* the datagrams the network hands to the receive path, and what decoding
\* each of them gives
RxDatagrams == Datagrams(RxSeqs, RxBodies)
Decoded == [d \in RxDatagrams |-> Decode(d)]

\* the decoded message as the rest of the receive path takes it
AsNormal(m) == [type |-> "NORMAL", seq |-> m.Seq, body |-> m.Body]

\* a datagram that did not decode, or whose type is unknown, is counted
Counts(err) == corruption + 1

\* A datagram arrives and is decoded. If decoding fails or the type byte is
\* unknown the datagram is dropped and counted; a panic of NewByHeader leaves
\* the receive loop; a message that decoded goes on to step 2 or 3.
RecvDatagram(d) ==
  /\ din = {}
  /\ ~readPanicked
  /\ corruption < MaxCorrupt
  /\ din' = {d}
  /\ dres' = {Decoded[d]}
  /\ IF Decoded[d].err = "panic"
     THEN /\ readPanicked' = TRUE
          /\ UNCHANGED <<corruption, netVars>>
     ELSE IF Decoded[d].err # "nil"
     THEN /\ corruption' = Counts(Decoded[d].err)
          /\ UNCHANGED <<readPanicked, netVars>>
     ELSE IF Decoded[d].msg.Type = TYPE_NORMAL
     THEN /\ netAB' = netAB \cup {AsNormal(Decoded[d].msg)}
          /\ UNCHANGED <<corruption, readPanicked, netBA>>
     ELSE IF Decoded[d].msg.Type = TYPE_ACK
     THEN /\ netBA' = netBA \cup {Decoded[d].msg.Seq}
          /\ UNCHANGED <<corruption, readPanicked, netAB>>
     ELSE /\ corruption' = Counts("TYPE")
          /\ UNCHANGED <<readPanicked, netVars>>
  /\ UNCHANGED <<connVars, msgVars, mapVars, readerVars, peerVars, timer, now,
                 closed, cmsg, wire, wireBy, reenc, bbrVars, gcVars, moreVars>>

\* the receive loop goes back to the socket
RxDone ==
  /\ din # {}
  /\ ~readPanicked
  /\ din' = {}
  /\ dres' = {}
  /\ UNCHANGED <<connState, closed, rxVars, bbrVars, gcVars, moreVars, cmsg, wire, wireBy, reenc>>

\* -------------------------------------- the sampler and the BBR controller
\* bounds: the round-trip count stops here, the clock of the filters stops
\* here, and it moves in steps of this many seconds
MaxRounds == 6
MaxFilterTime == 20
TickSeconds == 5

\* the samples an ack may bring
RttSamples == {1, 2}
BwSamples == {0, 4000, 4800}
Inflights == {0, 20000}

Max(a, b) == IF a >= b THEN a ELSE b
SetMin(S) == CHOOSE x \in S : \A y \in S : x <= y
SetMax(S) == CHOOSE x \in S : \A y \in S : x >= y

\* a filter that drops a sample as soon as it is 10 seconds old
ExpireAtWindow(w, t) == {e \in w : t - e.t < MinRTTWindow}

\* min-RTT filter: entries older than 10 seconds are expired
Expire(w, t) == {e \in w : t - e.t <= MinRTTWindow}

\* the current min is the minimum of the window; no sample, no estimate
WindowMin(w) == IF w = {} THEN 0 ELSE SetMin({e.rtt : e \in w})

\* max-bandwidth filter: the rounds of the last bandwidthWindowSize round
\* trips, with the sample bw added to round r
BwUpdate(w, r, bw) ==
  [q \in {x \in DOMAIN w \cup {r} : x > r - bandwidthWindowSize} |->
     IF q = r
     THEN Max(bw, IF q \in DOMAIN w THEN w[q] ELSE 0)
     ELSE w[q]]

\* the current max is the maximum sample within the window
WindowMax(w) == IF DOMAIN w = {} THEN 0 ELSE SetMax({w[q] : q \in DOMAIN w})

\* a startup that gives up after two rounds without growth
FullAfterTwo(count) == count >= fullBwCnt - 1

\* startup has seen fullBwCnt rounds without growth
FullBwReached(count) == count >= fullBwCnt

\* the estimate has grown by fullBwThresh over the last one that grew
Grew(bw, full) == bw * BBR_UNIT >= full * fullBwThresh

\* drain's target: bandwidth x minRTT x cwndGain
TargetCwnd(bw, rs) == (cwndGain * bw * rs) \div BBR_UNIT

\* the mode after an ack
NextMode(m, roundStart, count, fl, bw, rs) ==
  IF m = startup
  THEN IF roundStart /\ FullBwReached(count) THEN drain ELSE startup
  ELSE IF m = drain
  THEN IF fl <= TargetCwnd(bw, rs) THEN probeBW ELSE drain
  ELSE probeBW

\* a probeBW that paces at the estimate and never probes
PacingGainNoCycle(m, idx) ==
  IF m = startup THEN highGain
  ELSE IF m = drain THEN drainGain
  ELSE BBR_UNIT

\* the gains of each mode
PacingGainOf(m, idx) ==
  IF m = startup THEN highGain
  ELSE IF m = drain THEN drainGain
  ELSE pacingGain[idx + 1]
CwndGainOf(m) == IF m = startup THEN highGain ELSE cwndGain

\* a send window without its floor
CwndNoFloor(m, bw, rs) == (CwndGainOf(m) * bw * rs) \div BBR_UNIT

\* cwnd = max(4 x MTU, cwndGain x maxBandwidth x minRTT)
Cwnd(m, bw, rs) == Max(4 * MTU, (CwndGainOf(m) * bw * rs) \div BBR_UNIT)

\* An ack is processed: the sampler's filters take the samples, the
\* controller moves between its modes and sets the pacing rate and cwnd. A
\* retransmitted message brings no RTT sample.
OnAck(hasRtt, rs, bw, roundStart, fl) ==
  /\ rttWindow' = Expire(rttWindow \cup (IF hasRtt THEN {[t |-> now, rtt |-> rs]} ELSE {}), now)
  /\ rttLog' = {e \in rttLog \cup (IF hasRtt THEN {[t |-> now, rtt |-> rs]} ELSE {}) :
                  now - e.t <= MinRTTWindow}
  /\ minRTT' = WindowMin(rttWindow')
  /\ round' = IF roundStart THEN round + 1 ELSE round
  /\ bwWindow' = BwUpdate(bwWindow, round', bw)
  /\ maxBandwidth' = WindowMax(bwWindow')
  /\ inflight' = fl
  /\ IF mode = startup /\ roundStart
     THEN IF Grew(maxBandwidth', fullBw)
          THEN fullBw' = maxBandwidth' /\ fullBwCount' = 0
          ELSE fullBwCount' = fullBwCount + 1 /\ UNCHANGED fullBw
     ELSE UNCHANGED <<fullBw, fullBwCount>>
  /\ mode' = NextMode(mode, roundStart, fullBwCount', fl, maxBandwidth', minRTT')
  /\ cycleIndex' = IF mode = drain /\ mode' = probeBW THEN 0
                   ELSE IF mode = probeBW /\ roundStart
                   THEN (cycleIndex + 1) % gainCycleLength
                   ELSE cycleIndex
  /\ pacingRate' = (PacingGainOf(mode', cycleIndex') * maxBandwidth') \div BBR_UNIT
  /\ cwnd' = Cwnd(mode', maxBandwidth', minRTT')
  /\ bbrPc' = "acked"
  /\ UNCHANGED <<connState, closed, codecVars, rxVars, gcVars, moreVars>>

\* time passes between two acks
FilterTick ==
  /\ now < MaxFilterTime
  /\ now' = now + TickSeconds
  /\ bbrPc' = "idle"
  /\ UNCHANGED <<connVars, msgVars, mapVars, readerVars, peerVars, netVars, timer,
                 closed, codecVars, rxVars, mode, fullBw, fullBwCount, cycleIndex,
                 pacingRate, cwnd, minRTT, maxBandwidth, rttWindow, bwWindow,
                 round, inflight, rttLog, gcVars, moreVars>>

\* the controller under acks of every kind, with no time between them
BBRAck ==
  \E hasRtt \in BOOLEAN, rs \in RttSamples, bw \in BwSamples,
     roundStart \in BOOLEAN, fl \in Inflights :
    /\ roundStart => round < MaxRounds
    /\ OnAck(hasRtt, rs, bw, roundStart, fl)

BBRSpec == Init /\ [][BBRAck]_vars

\* the controller over many round trips: a steady bandwidth sample and
\* nothing in flight, so that startup and drain end as early as they can and
\* probeBW goes round its gain cycle
MaxCycleRounds == 13
CycleAck ==
  \E hasRtt \in BOOLEAN, rs \in RttSamples, roundStart \in BOOLEAN :
    /\ roundStart => round < MaxCycleRounds
    /\ OnAck(hasRtt, rs, 4000, roundStart, 0)

CycleSpec == Init /\ [][CycleAck]_vars

\* the min-RTT filter under acks with and without RTT samples, as time passes
RttAck ==
  \E hasRtt \in BOOLEAN, rs \in RttSamples :
    OnAck(hasRtt, rs, 4000, FALSE, 0)

RttNext ==
  \/ RttAck
  \/ FilterTick

RttSpec == Init /\ [][RttNext]_vars

\* ------------------------------------------------------------ the idle GC
\* bounds: the GC's clock stops here and moves in steps of this many seconds
MaxGCTime == 270
GCStep == 30

\* time passes
GCTick ==
  /\ now < MaxGCTime
  /\ now' = now + GCStep
  /\ UNCHANGED <<connVars, msgVars, mapVars, readerVars, peerVars, netVars, timer,
                 closed, codecVars, rxVars, bbrVars, gcVars, moreVars>>

\* UDPConn.UpdateLastTime, lines 97-101: activity on the connection
UpdateLastTime ==
  /\ ~closed
  /\ lastTime' = now
  /\ UNCHANGED <<connState, closed, codecVars, rxVars, bbrVars, lastSweep, moreVars>>

\* a sweep that closes a connection whose last activity is 90 seconds old
IdleAtPeriod(t, last) == t - last >= UDP_GC_PERIOD

\* the last activity (GetLastTime, lines 91-95) is older than UDP_GC_PERIOD
Idle(t, last) == t - last > UDP_GC_PERIOD

\* the GC sweeps every UDP_GC_PERIOD seconds and closes the connection
\* (UDPConn.Close) if it has been idle for longer than the period
GCSweep ==
  /\ ~closed
  /\ now - lastSweep >= UDP_GC_PERIOD
  /\ lastSweep' = now
  /\ closed' = Idle(now, lastTime)
  /\ UNCHANGED <<connState, codecVars, rxVars, bbrVars, lastTime, moreVars>>

GCNext ==
  \/ GCTick
  \/ UpdateLastTime
  \/ GCSweep

GCSpec == Init /\ [][GCNext]_vars

\* ------------------------------------------------------------ UDPConn.Close
\* lines 109-113: closed is set and the In and Out channels are closed. A
\* second Close panics in close(c.In) after setting closed again; the panic
\* is recovered (lines 104-108) and nothing else has changed.
Close ==
  /\ ~closed
  /\ closed' = TRUE
  /\ UNCHANGED <<connVars, msgVars, mapVars, readerVars, peerVars, netVars,
                 timer, now, codecVars, rxVars, bbrVars, gcVars, moreVars>>

\* WriteLoop, lines 41-45: the receive from the closed Out channel yields
\* !ok and WriteLoop returns nil
WriteLoopClosed ==
  /\ closed
  /\ wpc["loop"] = "idle"
  /\ wpc' = [wpc EXCEPT !["loop"] = "exit"]
  /\ UNCHANGED <<seq, status, wseq, werr, msgVars, mapVars, readerVars,
                 peerVars, netVars, timer, now, extVars>>

\* ------------------------------------------------------------- the network
\* a datagram is lost
NetDrop ==
  /\ \/ \E d \in netAB : netAB' = netAB \ {d} /\ UNCHANGED netBA
     \/ \E k \in netBA : netBA' = netBA \ {k} /\ UNCHANGED netAB
  /\ UNCHANGED <<connVars, msgVars, mapVars, readerVars, peerVars, timer, now, extVars>>

\* ------------------------------------------------- the peer's receive path
\* the buffered messages with seqs n, n+1, ... up to the first gap
RECURSIVE Drain(_, _)
Drain(n, buf) ==
  IF \E m \in buf : m.seq = n
  THEN <<CHOOSE m \in buf : m.seq = n>> \o Drain(n + 1, buf)
  ELSE <<>>

\* a receive path that hands every NORMAL message to the consumer on arrival
OnNormalNoOrder(d) ==
  [next |-> IF d.seq = recvNextExpected THEN d.seq + 1 ELSE recvNextExpected,
   buf |-> reorderBuffer,
   out |-> Append(delivered, d)]

\* receive path, step 3, after the ACK: deliver the expected seq and what
\* follows it in the buffer, buffer a later seq, drop an earlier one
OnNormal(d) ==
  IF d.seq = recvNextExpected
  THEN LET run == <<d>> \o Drain(d.seq + 1, reorderBuffer)
       IN  [next |-> d.seq + Len(run),
            buf |-> {m \in reorderBuffer : m.seq >= d.seq + Len(run)},
            out |-> delivered \o run]
  ELSE IF d.seq > recvNextExpected
  THEN [next |-> recvNextExpected,
        buf |-> {m \in reorderBuffer : m.seq # d.seq} \cup {d},
        out |-> delivered]
  ELSE [next |-> recvNextExpected, buf |-> reorderBuffer, out |-> delivered]

\* a peer that acknowledges only the messages it has not seen before
AckNewOnly(k) ==
  IF recvCount[k] = 0 THEN [ackCount EXCEPT ![k] = @ + 1] ELSE ackCount

\* UDPConn.Ack, lines 70-75: one ACK datagram carrying the seq
Ack(k) == [ackCount EXCEPT ![k] = @ + 1]

\* the peer takes a NORMAL datagram from the network (which may deliver it
\* again later), acknowledges its seq and runs step 3
PeerRecvSeq(s) ==
  \E d \in netAB, keep \in BOOLEAN :
    /\ d.seq = s
    /\ recvCount[s] < MaxCopies
    /\ netAB' = IF keep THEN netAB ELSE netAB \ {d}
    /\ recvCount' = [recvCount EXCEPT ![s] = @ + 1]
    /\ ackCount' = Ack(s)
    /\ netBA' = IF ackCount'[s] > ackCount[s] THEN netBA \cup {s} ELSE netBA
    /\ recvNextExpected' = OnNormal(d).next
    /\ reorderBuffer' = OnNormal(d).buf
    /\ delivered' = OnNormal(d).out
    /\ UNCHANGED <<connVars, msgVars, mapVars, readerVars, timer, now, extVars>>

PeerRecv == \E s \in Seqs : PeerRecvSeq(s)

\* ------------------------------------------------ the sender's receive path
\* receive path, step 2: an ACK datagram is handed to DelMsgAndGetLossMsgs
RecvAckSeq(k) ==
  \E keep \in BOOLEAN :
    /\ k \in netBA
    /\ DelLocked(k)
    /\ netBA' = IF keep THEN netBA ELSE netBA \ {k}

RecvAck == \E k \in Seqs : RecvAckSeq(k)

\* -------------------------------------------------- the connection, end to end
ConnWrite ==
  \E t \in Writers :
    \/ WriteBegin(t, AnyBody, MaxSend)
    \/ AddMsg(t)
    \/ Transmitted(t)
    \/ WriteOk(t)
    \/ WriteFail(t)

Next ==
  \/ ConnWrite
  \/ RecvAck
  \/ DelAcked
  \/ DelRecord
  \/ ReaderDone(TRUE)
  \/ PeerRecv
  \/ NetDrop

Spec == Init /\ [][Next]_vars

\* ------------------------- the connection on a network that delivers in the end
\* The WriteLoop goroutine alone sends; no write to the socket fails. Every
\* goroutine that can take a step takes it in the end, and a datagram that is
\* in flight again and again is delivered in the end.
FairWrite ==
  \/ WriteBegin("loop", OneBody, MaxFair)
  \/ AddMsg("loop")
  \/ Transmitted("loop")
  \/ WriteOk("loop")

FairTimer ==
  \E s \in 1..MaxFair :
    \/ RTOFire(s)
    \/ RTOResendOk(s)

FairNext ==
  \/ FairWrite
  \/ FairTimer
  \/ RecvAck
  \/ DelAcked
  \/ DelRecord
  \/ ReaderDone(TRUE)
  \/ PeerRecv
  \/ NetDrop

Fairness ==
  /\ WF_vars(FairWrite)
  /\ WF_vars(DelAcked)
  /\ WF_vars(DelRecord)
  /\ WF_vars(ReaderDone(TRUE))
  /\ \A s \in 1..MaxFair :
       /\ WF_vars(RTOFire(s))
       /\ WF_vars(RTOResendOk(s))
       /\ SF_vars(PeerRecvSeq(s))
       /\ SF_vars(RecvAckSeq(s))

FairSpec == Init /\ [][FairNext]_vars /\ Fairness

\* ------------------------- the pending map behind one writer, scheduled fairly
\* WriteLoop alone sends and ACKs arrive in any order; a goroutine that can
\* take the map's lock gets it in the end.
WinWrite ==
  \/ WriteBegin("loop", OneBody, MaxSeq)
  \/ AddMsg("loop")
  \/ Transmitted("loop")
  \/ WriteOk("loop")

WinNext ==
  \/ WinWrite
  \/ AckCall
  \/ DelAcked
  \/ DelRecord
  \/ ReaderDone(TRUE)

WinSpec ==
  /\ Init
  /\ [][WinNext]_vars
  /\ WF_vars(WinWrite)
  /\ WF_vars(DelAcked)
  /\ WF_vars(DelRecord)
  /\ WF_vars(ReaderDone(TRUE))

\* --------------------------- a run without loss, duplication or reordering
\* every datagram written is acknowledged, and the ACKs arrive in seq order
NextAck == Cardinality(ackedMessages) + 1

AckInOrder ==
  /\ NextAck \in Seqs
  /\ Datagram(NextAck) \in netAB
  /\ DelLocked(NextAck)
  /\ UNCHANGED netBA

HappyWrite ==
  \E t \in Writers :
    \/ WriteBegin(t, OneBody, MaxSeq)
    \/ AddMsg(t)
    \/ Transmitted(t)
    \/ WriteOk(t)

HappyNext ==
  \/ HappyWrite
  \/ AckInOrder
  \/ DelAcked
  \/ DelRecord
  \/ ReaderDone(TRUE)

HappySpec == Init /\ [][HappyNext]_vars

\* --------------------------------- the pending map and the messages' clocks
\* a few messages, ACKs for any seq, and time passing between the steps
AckWrite ==
  \E t \in Writers :
    \/ WriteBegin(t, OneBody, MaxSend)
    \/ AddMsg(t)
    \/ Transmitted(t)
    \/ WriteOk(t)

AckNext ==
  \/ AckWrite
  \/ AckCall
  \/ DelAcked
  \/ DelRecord
  \/ ReaderDone(TRUE)
  \/ Tick

AckSpec == Init /\ [][AckNext]_vars

\* ------------------------------------ the connection, its timers and Close
\* messages are written and acknowledged, their RTO timers run, datagrams are
\* lost on the way, and the collaborator closes the connection at any moment
CloseWrite ==
  \/ WriteBegin("loop", OneBody, MaxSend)
  \/ AddMsg("loop")
  \/ Transmitted("loop")
  \/ WriteOk("loop")
  \/ WriteLoopClosed

CloseTimer ==
  \E s \in 1..MaxSend :
    \/ RTOFire(s)
    \/ RTOResendOk(s)
    \/ RTOResendFail(s)

CloseNext ==
  \/ CloseWrite
  \/ CloseTimer
  \/ Close
  \/ AckCall
  \/ DelAcked
  \/ DelRecord
  \/ ReaderDone(TRUE)
  \/ NetDrop

CloseSpec == Init /\ [][CloseNext]_vars

\* ------------------------------------- UDPConn.Close, called more than once
\* what the steps of Close leave alone
unclosedVars == <<connState, codecVars, rxVars, bbrVars, gcVars, rtoVars, dmVars,
                  lockVars, facVars>>

MaxCloseCalls == 2

\* lines 109-111: closed is set under fieldsMutex
CloseSetClosed(c) ==
  /\ cpc[c] = "idle"
  /\ ncalls[c] < MaxCloseCalls
  /\ ncalls' = [ncalls EXCEPT ![c] = @ + 1]
  /\ closed' = TRUE
  /\ cpc' = [cpc EXCEPT ![c] = "in"]
  /\ UNCHANGED <<unclosedVars, chIn, chOut, closeLog, closePanic>>

\* a panic that the deferred function does not recover leaves Close
CloseNoRecover(c) ==
  /\ cpc' = [cpc EXCEPT ![c] = "idle"]
  /\ closePanic' = TRUE
  /\ UNCHANGED closeLog

\* lines 104-108: the deferred function recovers the panic and logs it;
\* Close returns
CloseRecover(c) ==
  /\ cpc' = [cpc EXCEPT ![c] = "idle"]
  /\ closeLog' = closeLog + 1
  /\ UNCHANGED closePanic

\* line 112: close(c.In); closing a closed channel panics
CloseIn(c) ==
  /\ cpc[c] = "in"
  /\ IF chIn = "open"
       THEN /\ chIn' = "closed"
            /\ cpc' = [cpc EXCEPT ![c] = "out"]
            /\ UNCHANGED <<closeLog, closePanic>>
       ELSE /\ CloseRecover(c)
            /\ UNCHANGED chIn
  /\ UNCHANGED <<unclosedVars, closed, ncalls, chOut>>

\* line 113: close(c.Out), and Close returns
CloseOut(c) ==
  /\ cpc[c] = "out"
  /\ IF chOut = "open"
       THEN /\ chOut' = "closed"
            /\ cpc' = [cpc EXCEPT ![c] = "idle"]
            /\ UNCHANGED <<closeLog, closePanic>>
       ELSE /\ CloseRecover(c)
            /\ UNCHANGED chOut
  /\ UNCHANGED <<unclosedVars, closed, ncalls, chIn>>

\* WriteLoop, lines 41-45: the receive from the Out channel, once Close has
\* closed it, yields !ok and WriteLoop returns nil
WriteLoopOutClosed ==
  /\ chOut = "closed"
  /\ wpc["loop"] = "idle"
  /\ wpc' = [wpc EXCEPT !["loop"] = "exit"]
  /\ UNCHANGED <<seq, status, wseq, werr, msgVars, mapVars, readerVars,
                 peerVars, netVars, timer, now, extVars>>

ClosersNext ==
  \/ \E c \in Closers :
       \/ CloseSetClosed(c)
       \/ CloseIn(c)
       \/ CloseOut(c)
  \/ WriteLoopOutClosed
  \/ \E t \in Writers : GetNextSeq(t)

ClosersSpec == Init /\ [][ClosersNext]_vars

\* ------------------------------- the messenger factory's Connection.Close
\* what the factory Connection's steps leave alone
unfacVars == <<connState, closed, codecVars, rxVars, bbrVars, gcVars, rtoVars,
               dmVars, chVars, lockVars>>

\* the callbacks the connection was given (conn.go lines 60-61)
Callbacks == {"reconnect", "onDisconnected"}

\* the calls of Close a caller makes: the preprocessor one, when it returns
MaxFCloseCalls == 3
FCallsOf(c) == IF c = "preprocessor" THEN 1 ELSE MaxFCloseCalls

\* SetKey, lines 135-139: the key is stored and keySet set under fieldsMutex
SetKey ==
  /\ fLock = "none"
  /\ ~keySet
  /\ keySet' = TRUE
  /\ UNCHANGED <<unfacVars, fpc, fcalls, fLock, fclosed, reconnects, disconnects,
                 unregisters, finCloses, connCloses>>

\* Close, lines 375-381: reconnect is started and onDisconnected is called,
\* each if it is set, before closed has been looked at
FCloseCallbacks(c) ==
  /\ fpc[c] = "idle"
  /\ fcalls[c] < FCallsOf(c)
  /\ fcalls' = [fcalls EXCEPT ![c] = @ + 1]
  /\ reconnects' = IF "reconnect" \in Callbacks THEN reconnects + 1 ELSE reconnects
  /\ disconnects' = IF "onDisconnected" \in Callbacks THEN disconnects + 1
                    ELSE disconnects
  /\ fpc' = [fpc EXCEPT ![c] = "lock"]
  /\ UNCHANGED <<unfacVars, fLock, fclosed, keySet, unregisters, finCloses,
                 connCloses>>

\* Close, lines 382-383: c.fieldsMutex.Lock(), released when Close returns
FCloseLock(c) ==
  /\ fpc[c] = "lock"
  /\ fLock = "none"
  /\ fLock' = c
  /\ fpc' = [fpc EXCEPT ![c] = "locked"]
  /\ UNCHANGED <<unfacVars, fcalls, fclosed, keySet, reconnects, disconnects,
                 unregisters, finCloses, connCloses>>

\* Close, lines 384-407: a closed connection is left as it is; any other is
\* marked closed, its key unregistered if one is set, c.in closed and the
\* underlying connection closed
FCloseLocked(c) ==
  /\ fpc[c] = "locked"
  /\ IF fclosed
       THEN UNCHANGED <<fclosed, keySet, unregisters, finCloses, connCloses>>
       ELSE /\ fclosed' = TRUE
            /\ unregisters' = IF keySet THEN unregisters + 1 ELSE unregisters
            /\ keySet' = FALSE
            /\ finCloses' = finCloses + 1
            /\ connCloses' = connCloses + 1
  /\ fLock' = "none"
  /\ fpc' = [fpc EXCEPT ![c] = "idle"]
  /\ UNCHANGED <<unfacVars, fcalls, reconnects, disconnects>>

FacNext ==
  \/ SetKey
  \/ \E c \in FClosers :
       \/ FCloseCallbacks(c)
       \/ FCloseLock(c)
       \/ FCloseLocked(c)

FacSpec == Init /\ [][FacNext]_vars

\* ------------------------------------------- Write with bodies of any size
SizeWrite ==
  \E t \in Writers :
    \/ WriteBegin(t, SizedBody, MaxSend)
    \/ AddMsg(t)
    \/ Transmitted(t)
    \/ WriteOk(t)
    \/ WriteFail(t)

SizeNext ==
  \/ SizeWrite
  \/ AckCall
  \/ DelAcked
  \/ DelRecord
  \/ ReaderDone(TRUE)

SizeSpec == Init /\ [][SizeNext]_vars

\* ------------------------------- the receive path on a network that damages
\* datagrams arrive well-formed, damaged, cut or with a wrong len field while
\* messages are written and acknowledged
RxWrite ==
  \/ WriteBegin("loop", ByteBody, MaxRxSend)
  \/ AddMsg("loop")
  \/ Transmitted("loop")
  \/ WriteOk("loop")

RxNext ==
  \/ RxWrite
  \/ \E d \in RxDatagrams : RecvDatagram(d)
  \/ RxDone
  \/ RecvAck
  \/ DelAcked
  \/ DelRecord
  \/ ReaderDone(TRUE)
  \/ PeerRecv

RxSpec == Init /\ [][RxNext]_vars

\* ----------------------------------------- the RTO timers and their clock
\* the rto a timer may be armed with: max(MIN_RTO, 2 x smoothed RTT)
RTOs == {MIN_RTO, MIN_RTO + 1}

\* 100 ms pass. A timer goes off when it is due, and neither its function nor
\* the socket write that follows the stamp of Transmitted takes time.
TimerTick ==
  /\ now < MaxTimerTime
  /\ \A s \in Seqs : timer[s] = "armed" => fireAt[s] > now
  /\ \A s \in Seqs : timer[s] # "run"
  /\ \A t \in Writers : wpc[t] # "write"
  /\ now' = now + 1
  /\ UNCHANGED <<connVars, msgVars, mapVars, readerVars, peerVars, netVars, timer,
                 extVars>>

\* time.AfterFunc: the timer's function runs once rto has passed
RTODue(s) ==
  /\ now >= fireAt[s]
  /\ RTOFire(s)

\* the peer's ACK of a datagram that was written
AckSent ==
  \E k \in Seqs :
    /\ Datagram(k) \in netAB
    /\ DelLocked(k)
    /\ UNCHANGED netBA

TimerWrite ==
  \/ WriteBegin("loop", OneBody, MaxTimerSend)
  \/ AddMsg("loop")
  \/ Transmitted("loop")
  \/ \E r \in RTOs : WriteOkRTO("loop", r)

TimerRun ==
  \E s \in 1..MaxTimerSend :
    \/ RTODue(s)
    \/ RTOResendOk(s)
    \/ RTOResendFail(s)
    \/ Miss(s)

TimerNext ==
  \/ TimerWrite
  \/ TimerRun
  \/ AckSent
  \/ DelAcked
  \/ DelRecord
  \/ ReaderDone(TRUE)
  \/ TimerTick

TimerSpec == Init /\ [][TimerNext]_vars

\* ------------------------------- retransmissions by timer and by loss report
\* three messages with the one rto, their timers, the clock, and ACKs in any
\* order, so that an ACK reports an earlier message lost
RetxWrite ==
  \/ WriteBegin("loop", OneBody, MaxSend)
  \/ AddMsg("loop")
  \/ Transmitted("loop")
  \/ WriteOk("loop")

RetxTimer ==
  \E s \in 1..MaxSend :
    \/ RTODue(s)
    \/ RTOResendOk(s)

RetxNext ==
  \/ RetxWrite
  \/ RetxTimer
  \/ AckSent
  \/ DelAcked
  \/ DelRecord
  \/ ReaderDone(TRUE)
  \/ TimerTick

RetxSpec == Init /\ [][RetxNext]_vars

\* ------------------------------------------------------ PendingMap.analyse
\* what the analyse tasks leave alone
unanalysedVars == <<connVars, msgVars, Pending, waitBits, panicked, readerVars,
                    peerVars, netVars, timer, now, closed, codecVars, rxVars,
                    bbrVars, gcVars, rtoVars, dmVars, chVars, facVars>>

\* highest seq allocated while the analyse tasks run
MaxLockSend == 2

\* lines 60-61: the ticker fires; the task goes for ackedMessagesMutex
AnalyseTick(a) ==
  /\ apc[a] = "idle"
  /\ apc' = [apc EXCEPT ![a] = "lockAcked"]
  /\ UNCHANGED <<unanalysedVars, ackedMessages, ackedLock, lmWriter, lmReaders,
                 lastMinuteAcked>>

\* line 62: m.ackedMessagesMutex.Lock()
AnalyseLockAcked(a) ==
  /\ apc[a] = "lockAcked"
  /\ ackedLock = "none"
  /\ ackedLock' = a
  /\ apc' = [apc EXCEPT ![a] = "lockLast"]
  /\ UNCHANGED <<unanalysedVars, ackedMessages, lmWriter, lmReaders,
                 lastMinuteAcked>>

\* line 63: m.lastMinuteAckedMutex.Lock(), with ackedMessagesMutex held
AnalyseLockLast(a) ==
  /\ apc[a] = "lockLast"
  /\ lmWriter = "none"
  /\ lmReaders = {}
  /\ lmWriter' = a
  /\ apc' = [apc EXCEPT ![a] = "swap"]
  /\ UNCHANGED <<unanalysedVars, ackedMessages, ackedLock, lmReaders,
                 lastMinuteAcked>>

\* lines 64-65: lastMinuteAcked takes the acked set; its lock is released
AnalyseSwap(a) ==
  /\ apc[a] = "swap"
  /\ lastMinuteAcked' = ackedMessages
  /\ lmWriter' = "none"
  /\ apc' = [apc EXCEPT ![a] = "reset"]
  /\ UNCHANGED <<unanalysedVars, ackedMessages, ackedLock, lmReaders>>

\* lines 66-67: a new, empty acked set; ackedMessagesMutex is released
AnalyseReset(a) ==
  /\ apc[a] = "reset"
  /\ ackedMessages' = {}
  /\ ackedLock' = "none"
  /\ apc' = [apc EXCEPT ![a] = "rlock"]
  /\ UNCHANGED <<unanalysedVars, lmWriter, lmReaders, lastMinuteAcked>>

\* line 69: m.lastMinuteAckedMutex.RLock(); a sync.RWMutex admits no new
\* reader while a writer holds it or waits for it
AnalyseRLock(a) ==
  /\ apc[a] = "rlock"
  /\ lmWriter = "none"
  /\ \A b \in Analysers : apc[b] # "lockLast"
  /\ lmReaders' = lmReaders \cup {a}
  /\ apc' = [apc EXCEPT ![a] = "stats"]
  /\ UNCHANGED <<unanalysedVars, ackedMessages, ackedLock, lmWriter,
                 lastMinuteAcked>>

\* lines 70-97: with nothing acked in the last minute the read lock is
\* released at once, otherwise after the statistics have been computed
AnalyseStats(a) ==
  /\ apc[a] = "stats"
  /\ lmReaders' = lmReaders \ {a}
  /\ apc' = [apc EXCEPT ![a] = "idle"]
  /\ UNCHANGED <<unanalysedVars, ackedMessages, ackedLock, lmWriter,
                 lastMinuteAcked>>

Analyse(a) ==
  \/ AnalyseTick(a)
  \/ AnalyseLockAcked(a)
  \/ AnalyseLockLast(a)
  \/ AnalyseSwap(a)
  \/ AnalyseReset(a)
  \/ AnalyseRLock(a)
  \/ AnalyseStats(a)

\* DelMsgAndGetLossMsgs, lines 157-161: the message is recorded as acked
\* under ackedMessagesMutex
DelRecordUnderLock ==
  /\ ackedLock = "none"
  /\ DelRecord

\* messages are written and acknowledged while the two analyse tasks run
LockWrite ==
  \/ WriteBegin("loop", OneBody, MaxLockSend)
  \/ AddMsg("loop")
  \/ Transmitted("loop")
  \/ WriteOk("loop")

LockNext ==
  \/ LockWrite
  \/ AckSent
  \/ DelAcked
  \/ DelRecordUnderLock
  \/ ReaderDone(FALSE)
  \/ \E a \in Analysers : Analyse(a)

LockSpec == Init /\ [][LockNext]_vars

\* ================================================================ claims

\* C1 (FairSpec): every body submitted to Write is delivered to the peer's
\* consumer in the end, on a network that drops, duplicates and reorders but
\* delivers in the end what is sent again and again.
C1_Reliability ==
  \A s \in 1..MaxFair : (seq >= s) ~> (recvNextExpected > s)

\* C2 (Spec): what the peer's consumer has received is the bodies of seqs
\* 1, 2, ..., n as they were submitted, in that order and without a gap; a
\* message that arrived ahead of its turn waits in reorderBuffer.
C2_DeliveredInOrder ==
  /\ Len(delivered) = recvNextExpected - 1
  /\ \A i \in 1..Len(delivered) :
       /\ delivered[i].seq = i
       /\ delivered[i].body = mbody[i]
       /\ i <= seq
       /\ recvCount[i] > 0
  /\ \A m \in reorderBuffer : m.seq > recvNextExpected /\ m.body = mbody[m.seq]

\* seq 2 arrived before seq 1: it is held back and nothing is delivered
C2_Witness ==
  /\ \E m \in reorderBuffer : m.seq = 2
  /\ recvCount[1] = 0
  /\ delivered = <<>>

\* C3 (Spec): no seq is delivered to the consumer twice, however many copies
\* of its datagram arrive.
C3_AtMostOnce ==
  \A i, j \in 1..Len(delivered) :
    delivered[i].seq = delivered[j].seq => i = j

\* a second copy of a delivered seq has arrived
C3_Witness ==
  \E i \in 1..Len(delivered) : recvCount[delivered[i].seq] >= 2

\* C4 (PMSpec): the pending map never holds more than 8 messages.
C4_PendingAtMost8 == Cardinality(Pending) <= WindowSize

\* the window is full and a ninth AddMsg waits
C4_Witness ==
  /\ Cardinality(Pending) = WindowSize
  /\ \E t \in Writers : wpc[t] = "add" /\ (wseq[t] % WindowSize) \in waitBits

\* C5 (WinSpec): AddMsg of a seq whose slot is taken inserts nothing while
\* the slot is taken, and once the slot is vacated the waiting AddMsg
\* completes in the end.
C5_Backpressure ==
  /\ [](\A t \in Writers :
          (wpc[t] = "add" /\ (wseq[t] % WindowSize) \in waitBits)
            => wseq[t] \notin Pending)
  /\ \A s \in Seqs :
       (/\ wpc["loop"] = "add"
        /\ wseq["loop"] = s
        /\ s > WindowSize
        /\ (s % WindowSize) \notin waitBits) ~> (s \in Pending)

\* C6 (HappySpec): with every ACK arriving in seq order, each ACK finds its
\* seq pending, reports no loss and does not fail, and when everything sent
\* has been acknowledged the pending map is empty.
C6_HappyPath ==
  /\ ~panicked
  /\ rpc = "return" => rok /\ rloss = <<>>
  /\ (rpc = "idle" /\ Cardinality(ackedMessages) = seq
        /\ \A t \in Writers : wpc[t] = "idle") => Pending = {}

\* C7 (PMSpec): an ACK for k that is processed while k-j, j in 2..7, is
\* pending reports k-j as lost, and the receive path writes every reported
\* message again at once.
C7_FastLossRecovery ==
  /\ [][\A k \in Pending \ Pending' : \A j \in 2..7 :
          (k - j) \in Pending => ~panicked' /\ (k - j) \in Range(rloss')]_vars
  /\ [][(rpc = "return" /\ rpc' = "idle" /\ rok)
          => \A s \in Range(rloss) : Datagram(s) \in netAB']_vars

\* C8 (Spec): the peer has called Ack for a seq as often as it has received
\* a NORMAL datagram with that seq, and each call put an ACK in flight.
C8_AckPerNormal ==
  /\ \A s \in Seqs : ackCount[s] = recvCount[s]
  /\ [][\A s \in Seqs : recvCount'[s] > recvCount[s] => s \in netBA']_vars

\* a seq already delivered arrived again and was acknowledged again
C8_Witness ==
  \E s \in Seqs : ackCount[s] = 2 /\ s < recvNextExpected

\* C9 (AckSpec): DelMsgAndGetLossMsgs of a seq that is not pending returns
\* (false, nil) and leaves pending, the window bits, the acked set and every
\* message's status and rtt as they were.
C9_UnknownAckNoOp ==
  [][(rpc = "idle" /\ rpc' = "return" /\ ~rok')
       => /\ rloss' = <<>>
          /\ UNCHANGED <<Pending, waitBits, ackedMessages, mstatus, ackedAt, rtt>>]_vars

\* the ACK of a seq acknowledged earlier, at a later time, has just returned
C9_Witness ==
  /\ rpc = "return"
  /\ ~rok
  /\ rk \in ackedMessages
  /\ now > ackedAt[rk]
  /\ Pending # {}

C11_NoResendAfterClose ==
  [][closed => \A s \in Seqs :
       /\ timer[s] = "armed" => timer'[s] # "run"
       /\ timer[s] = "run" => /\ timer'[s] # "armed"
                              /\ Datagram(s) \in netAB' => Datagram(s) \in netAB]_vars

\* C12 (SizeSpec): a body whose framed datagram would be longer than
\* MAX_UDP_PACKAGE_SIZE never becomes pending and is never written, and the
\* Write that submitted it returns an error.
C12_OversizeRejected ==
  \A s \in Seqs :
    FramedSize(mbody[s]) > MAX_UDP_PACKAGE_SIZE
      => /\ s \notin Pending \cup ackedMessages
         /\ Datagram(s) \notin netAB
         /\ \A t \in Writers :
              (wseq[t] = s /\ wpc[t] \in {"idle", "exit"}) => werr[t] = "err"

\* C14 (CodecSpec): what PkgBytes returns for a message of a valid type and
\* a body within the limit decodes without error to the same type, seq, len
\* and body; and a datagram that decodes without error is, encoded again,
\* the same bytes.
C14_CodecRoundTrip ==
  /\ \A m \in cmsg, w \in wire :
       wireBy = "PkgBytes"
         => /\ Decode(w).err = "nil"
            /\ Decode(w).msg.Type = m.Type
            /\ Decode(w).msg.Seq = m.Seq
            /\ Decode(w).msg.Len = m.Len
            /\ Decode(w).msg.Body = m.Body
  /\ \A d \in din, e \in reenc : e = d

\* a datagram that fails decoding: shorter than the two headers, a checksum
\* that does not match, a len field above MAX_MESSAGE_SIZE or above the bytes
\* that follow the header, or an unknown type byte
FailsDecoding(d) ==
  \/ Len(d) < PKG_HEADER_SIZE + MSG_HEADER_SIZE
  \/ SubSeq(d, 1, PKG_HEADER_SIZE) # ChecksumIEEE(SubSeq(d, PKG_HEADER_SIZE + 1, Len(d)))
  \/ Uint32(SubSeq(d, 10, 13)) > MAX_MESSAGE_SIZE
  \/ Uint32(SubSeq(d, 10, 13)) > Len(d) - PKG_HEADER_SIZE - MSG_HEADER_SIZE
  \/ d[PKG_HEADER_SIZE + 1] \notin ValidTypes

\* C13 (RxSpec): the receive of a datagram that fails decoding adds one to
\* the corruption counter and changes nothing else: nothing is delivered or
\* acknowledged, recvNextExpected, reorderBuffer and the pending map are as
\* they were, and the connection stays open with its receive loop running.
C13_CorruptDropped ==
  [][\A d \in din' :
       (din = {} /\ FailsDecoding(d))
         => /\ corruption' = corruption + 1
            /\ ~readPanicked'
            /\ ~closed' /\ status' = STATUS_CONNECTED
            /\ UNCHANGED <<delivered, ackCount, netAB, netBA, recvNextExpected,
                           reorderBuffer, Pending, waitBits, ackedMessages>>]_vars

\* C15 (BBRSpec): the send window is never below 4 x MTU, in every mode and
\* also while the bandwidth or the min-RTT estimate is zero.
C15_CwndFloor == cwnd >= 4 * MTU

\* an ack has been processed in probeBW while no RTT sample has been taken
C15_Witness ==
  /\ bbrPc = "acked"
  /\ mode = probeBW
  /\ maxBandwidth > 0
  /\ minRTT = 0

\* C16 (BBRSpec): startup ends in drain, and exactly when the bandwidth
\* estimate has failed to grow by fullBwThresh in fullBwCnt rounds running;
\* drain ends in probeBW at cycle index 0, and exactly on an ack that finds
\* the bytes in flight at or below the target cwnd; the mode never moves back.
C16_ModeTransitions ==
  /\ [][(/\ mode = startup
          /\ round' > round
          /\ ~Grew(maxBandwidth', fullBw)
          /\ fullBwCount = fullBwCnt - 1) => mode' = drain]_vars
  /\ [][(mode = startup /\ mode' # startup)
          => /\ mode' = drain
             /\ fullBwCount' = fullBwCnt
             /\ round' > round]_vars
  /\ [][(mode = drain /\ inflight' <= TargetCwnd(maxBandwidth', minRTT'))
          => mode' = probeBW /\ cycleIndex' = 0]_vars
  /\ [][(mode = drain /\ mode' # drain)
          => /\ mode' = probeBW
             /\ cycleIndex' = 0
             /\ inflight' <= TargetCwnd(maxBandwidth', minRTT')]_vars
  /\ [][mode' >= mode]_vars

\* the controller has gone from startup through drain, where it waited for
\* the bytes in flight to fall, to probeBW
C16_Witness ==
  /\ mode = probeBW
  /\ cycleIndex = 0
  /\ fullBwCount = fullBwCnt
  /\ round > fullBwCnt + 1
  /\ maxBandwidth > 0
  /\ minRTT > 0

\* C17 (RttSpec): right after an ack the min-RTT estimate is at or below
\* every RTT sample taken in the last 10 seconds.
C17_MinRTTBelowSamples ==
  bbrPc = "acked"
    => \A e \in rttLog : now - e.t <= MinRTTWindow => minRTT <= e.rtt

\* after an ack, the lowest sample of the window is exactly 10 seconds old
\* and a later sample is higher
C17_Witness ==
  /\ bbrPc = "acked"
  /\ \E e, f \in rttLog :
       /\ now - e.t = MinRTTWindow
       /\ e.rtt = minRTT
       /\ f.t > e.t
       /\ f.rtt > e.rtt

\* C18 (GCSpec): a sweep closes the connection if and only if its last
\* activity is more than UDP_GC_PERIOD seconds old, so a connection with
\* activity in every interval of that length is never closed by the GC, and
\* one that has been idle for longer is closed by the next sweep.
C18_IdleGC ==
  /\ [][(lastSweep' # lastSweep)
          => (closed' <=> now - lastTime > UDP_GC_PERIOD)]_vars
  /\ [][(~closed /\ closed') => lastSweep' = now]_vars
  /\ [](closed => lastSweep - lastTime > UDP_GC_PERIOD)

\* a sweep has found the connection idle for exactly the period and left it
\* open
C18_Witness ==
  /\ ~closed
  /\ lastSweep = now
  /\ lastSweep > 0
  /\ now - lastTime = UDP_GC_PERIOD

\* C19 (PMSpec): the loss scan of DelMsgAndGetLossMsgs never panics: when it
\* finds the bit of slot (k - n) mod 8 set, n in 2..7, the key k - n is
\* pending.
C19_ScanNeverPanics ==
  /\ rpc # "panic"
  /\ [][\A k \in Pending \ Pending' : \A n \in 2..7 :
          SlotSet(k, n, waitBits') => PrevKey(k, n) \in Pending']_vars

\* C20 (PMSpec): DelMsgAndGetLossMsgs of a pending seq k removes k and
\* returns exactly the messages that are still pending with a seq among the
\* seven before k: nothing newer than k, nothing acknowledged, and not k.
C20_LossIsPrecedingPending ==
  [][\A k \in Pending \ Pending' :
       /\ ~panicked'
       /\ rok'
       /\ Range(rloss') = {s \in Pending' : k - 7 <= s /\ s <= k - 1}]_vars

\* C21 (PMSpec): DelMsgAndGetLossMsgs(k) never returns k - 1 as lost, also
\* while k - 1 is pending: what it returns is among k - 7 .. k - 2, and when
\* k - 1 is the only message left pending it returns an empty list.
C21_PredecessorNeverLost ==
  [][\A k \in Pending \ Pending' :
       /\ PrevKey(k, 1) \notin Range(rloss')
       /\ Range(rloss') \subseteq {PrevKey(k, n) : n \in 2..7}
       /\ Pending' = {PrevKey(k, 1)} => rpc' = "acked" /\ rloss' = <<>>]_vars

\* the call has returned a loss list while the immediate predecessor of the
\* acknowledged seq is pending
C21_Witness ==
  /\ rpc = "acked"
  /\ PrevKey(rk, 1) \in Pending
  /\ rloss # <<>>

\* C22 (PMSpec): no two pending seqs share a slot, and a bit of waitBits is
\* set exactly when a pending seq has that slot, whatever the interleaving of
\* the writers' AddMsg and the reader's DelMsgAndGetLossMsgs.
C22_SlotUniqueness ==
  /\ \A a, b \in Pending : a % WindowSize = b % WindowSize => a = b
  /\ waitBits = {s % WindowSize : s \in Pending}

\* an AddMsg waits for the slot of a pending seq while the reader has just
\* deleted another seq and has not yet marked it acked
C22_Witness ==
  /\ rpc = "acked"
  /\ \E t \in Writers :
       /\ wpc[t] = "add"
       /\ wseq[t] \notin Pending
       /\ (wseq[t] - WindowSize) \in Pending

\* C23 (WinSpec): with WriteLoop as the only caller of Write, which adds
\* seqs in increasing order, the seqs pending at any one time lie within 8
\* consecutive numbers: the highest is at most 7 above the lowest.
C23_PendingWithinWindow ==
  \A a, b \in Pending : a - b <= WindowSize - 1

\* the window has moved on from seq 1 and is full: its lowest and its
\* highest seq are 7 apart
C23_Witness ==
  \E a \in Pending :
    /\ a > 1
    /\ (a + WindowSize - 1) \in Pending
    /\ Cardinality(Pending) = WindowSize

\* C26 (TimerSpec): a timer that goes off for a message that is not acked
\* resets miss to 0 and goes on to resend; the resend either writes the
\* datagram and arms the timer again when it is due, with the rto it had and
\* due rto later, or fails and leaves the timer off, having written nothing;
\* a timer that goes off for an acked message writes nothing and stays off.
C26_RTOStep ==
  /\ [][\A s \in Seqs : (timer[s] = "armed" /\ timer'[s] # "armed")
          => IF MSG_STATUS_ACKED \in mstatus[s]
             THEN timer'[s] = "off" /\ UNCHANGED <<netAB, miss, rto, fireAt>>
             ELSE timer'[s] = "run" /\ miss'[s] = 0 /\ now = fireAt[s]]_vars
  /\ [][\A s \in Seqs : (timer[s] = "run" /\ timer'[s] # "run")
          => /\ timer'[s] = "armed"
                  => /\ Datagram(s) \in netAB'
                     /\ rto'[s] = rto[s]
                     /\ now = fireAt[s]
                     /\ fireAt'[s] = fireAt[s] + rto[s]
             /\ timer'[s] # "armed"
                  => timer'[s] = "off" /\ UNCHANGED <<netAB, rto, fireAt>>
             /\ UNCHANGED miss]_vars

\* the timer of seq 1 has been armed again, later than the timer of seq 2
\* was last armed, and the message is still not acked
C26_Witness ==
  /\ timer[1] = "armed"
  /\ MSG_STATUS_ACKED \notin mstatus[1]
  /\ rto[2] > 0
  /\ fireAt[1] - rto[1] > fireAt[2] - rto[2]
  /\ fireAt[1] >= transmittedAt[1] + 2 * rto[1]

\* C27 (TimerSpec): once the acked bit of a message is set, its timer's
\* function does not resend it and does not arm a timer for it, however the
\* function and Acked() interleave.
C27_NoResendAfterAck ==
  [][\A s \in Seqs : MSG_STATUS_ACKED \in mstatus[s]
       => /\ timer[s] = "armed" => timer'[s] # "run"
          /\ timer[s] = "run" => timer'[s] # "armed"
          /\ timer[s] = "off" => timer'[s] = "off"]_vars

\* C28 (RetxSpec): once a message is stamped as transmitted, no step changes
\* its transmittedAt, whether a timer or a loss report writes it again; and
\* the rtt of an acked message is its ackedAt less that first stamp.
C28_StampedOnce ==
  /\ [][\A s \in Seqs : MSG_STATUS_TRANSMITTED \in mstatus[s]
          => transmittedAt'[s] = transmittedAt[s]]_vars
  /\ [](\A s \in Seqs : MSG_STATUS_ACKED \in mstatus[s]
          => rtt[s] = ackedAt[s] - transmittedAt[s])

\* seq 1 was written again by its timer, and again when the ACK of seq 3
\* reported it lost, before its own ACK came
C28_Witness ==
  /\ MSG_STATUS_ACKED \in mstatus[1]
  /\ MSG_STATUS_ACKED \in mstatus[3]
  /\ ackedAt[3] < ackedAt[1]
  /\ rtt[1] > rto[1]
  /\ fireAt[1] >= transmittedAt[1] + 2 * rto[1]

\* C24 (DelSpec): no message in Pending has its acked bit set, with
\* PendingMap.DelMsg as with UDPPendingMap.DelMsgAndGetLossMsgs.
C24_PendingNotAcked ==
  \A s \in Pending : MSG_STATUS_ACKED \notin mstatus[s]

\* C25 (DelSpec): once the acked bit of a message is set, no step changes
\* its status, its ackedAt or its rtt, also when two callers acknowledge the
\* same seq at the same time.
C25_AckedOnce ==
  [][\A s \in Seqs : MSG_STATUS_ACKED \in mstatus[s]
       => /\ mstatus'[s] = mstatus[s]
          /\ ackedAt'[s] = ackedAt[s]
          /\ rtt'[s] = rtt[s]]_vars

\* C29 (FairSpec): the first ACK that the reader takes for a seq, that is an
\* ACK for a seq whose acked bit is not set, finds the seq in Pending:
\* DelMsgAndGetLossMsgs returns ok = true for it, however the writer, the
\* timers and the reader interleave.
C29_FirstAckFindsSeq ==
  [][\A k \in Seqs :
       (rpc = "idle" /\ rpc' # "idle" /\ rk' = k
          /\ MSG_STATUS_ACKED \notin mstatus[k]) => rok']_vars

\* the first ACK of a seq has found it, after the timer of the seq has gone
\* off and the peer has received the seq twice
C29_Witness ==
  /\ rpc = "acked"
  /\ rok
  /\ recvCount[rk] >= 2
  /\ timer[rk] = "run"

\* C30 (Spec): the acked messages reach the controller in increasing seq
\* order: when the receive path takes an acked message from
\* DelMsgAndGetLossMsgs to feed it, every message acked before has a lower
\* seq, whatever order the ACK datagrams arrive in.
C30_AcksInSeqOrder ==
  [][(rpc = "return" /\ rpc' = "idle" /\ rok)
       => \A j \in ackedMessages \ {rk} : j < rk]_vars

\* C31 (SeqSpec): every seq allocated is one above the seq allocated before
\* it, starting at 1, so the seqs are distinct and increasing whoever the
\* callers are, and 0 is never allocated, also when the counter wraps.
C31_SeqsIncreasing ==
  [][seq' # seq
       => /\ seq' = seq + 1
          /\ seq' # 0
          /\ \E t \in Writers : wseq'[t] = seq']_vars

\* C32 (CycleSpec): in probeBW an ack that starts a round moves the cycle
\* index on by one modulo 8 and any other ack leaves it; the pacing rate is
\* the bandwidth estimate times the gain at the index in the cycle 1.25,
\* 0.75, 1, 1, 1, 1, 1, 1; and the send window is built with a gain of 2.
C32_ProbeBWCycle ==
  /\ [][mode = probeBW
          => cycleIndex' = IF round' > round THEN (cycleIndex + 1) % 8
                           ELSE cycleIndex]_vars
  /\ [](mode = probeBW
          => /\ cycleIndex \in 0..7
             /\ pacingRate =
                  (maxBandwidth * (IF cycleIndex = 0 THEN (BBR_UNIT * 5) \div 4
                                   ELSE IF cycleIndex = 1 THEN (BBR_UNIT * 3) \div 4
                                   ELSE BBR_UNIT)) \div BBR_UNIT
             /\ cwnd = Max(4 * MTU, 2 * maxBandwidth * minRTT))

\* probeBW has gone once round the cycle and is back at its first entry,
\* with an RTT estimate that puts the send window above its floor
C32_Witness ==
  /\ mode = probeBW
  /\ cycleIndex = 0
  /\ round >= fullBwCnt + 2 + gainCycleLength
  /\ cwnd > 4 * MTU

\* C33 (ClosersSpec): closed is never reset once a call of Close has set it;
\* a closed channel stays closed and Out is never closed before In; no panic
\* leaves Close, whether the calls follow one another or overlap; and when no
\* call is under way after the first, In and Out are both closed.
C33_ClosedIsTerminal ==
  /\ [][closed => closed']_vars
  /\ [][(chIn = "closed" => chIn' = "closed")
         /\ (chOut = "closed" => chOut' = "closed")]_vars
  /\ [](~closePanic)
  /\ [](chOut = "closed" => chIn = "closed")
  /\ [](chIn = "closed" => closed)
  /\ []((closed /\ \A c \in Closers : cpc[c] = "idle")
          => chIn = "closed" /\ chOut = "closed")

\* both callers have called Close twice and returned, three of the four
\* calls after recovering from a panic
C33_Witness ==
  /\ \A c \in Closers : cpc[c] = "idle" /\ ncalls[c] = MaxCloseCalls
  /\ closeLog = 3
  /\ closed /\ chIn = "closed" /\ chOut = "closed"

\* a task holds or wants one of the locks of the acked sets
LockWanted ==
  \/ rpc = "record"
  \/ \E a \in Analysers : apc[a] # "idle"

\* the locks of the acked sets never leave every task that holds or wants
\* one of them unable to move
NoLockDeadlock ==
  LockWanted => ENABLED (DelRecordUnderLock \/ \E a \in Analysers : Analyse(a))

\* C34 (LockSpec): a call of DelMsgAndGetLossMsgs never has to wait for a
\* lock that an analyse task holds, and the tasks that hold or want the locks
\* of the acked sets can never all be unable to move.
C34_AnalyseNeverBlocks ==
  /\ ~(rpc = "record" /\ ackedLock \in Analysers)
  /\ NoLockDeadlock

\* C35 (CodecSpec): whatever calls came before, PkgBytes returns the framed
\* datagram of the message, 4 + 9 + len bytes with the checksum first, and
\* Bytes returns its 9 + len bytes without the frame.
C35_EncodingStable ==
  \A m \in cmsg, w \in wire :
    /\ wireBy = "PkgBytes"
         => /\ Len(w) = PKG_HEADER_SIZE + MSG_HEADER_SIZE + m.Len
            /\ w = Frame(m.Type, m.Seq, m.Len, m.Body)
    /\ wireBy = "Bytes"
         => /\ Len(w) = MSG_HEADER_SIZE + m.Len
            /\ w = <<m.Type>> \o PutUint32(m.Seq) \o PutUint32(m.Len) \o m.Body

\* what Close does once closed is set, it does at most once
FCloseBodyOnce ==
  /\ unregisters <= 1
  /\ finCloses <= 1
  /\ connCloses <= 1

\* C36 (FacSpec): however many calls of Close there are, one after another
\* or at once, reconnect is started at most once, onDisconnected runs at most
\* once, the key is unregistered at most once, and c.in and the underlying
\* connection are closed at most once.
C36_CloseIdempotent ==
  /\ reconnects <= 1
  /\ disconnects <= 1
  /\ FCloseBodyOnce

====
